---- MODULE Spec2Model ----
(***************************************************************************)
(* A model of the particle simulation kernel of Cpp23Particles:            *)
(* ParticleSystem (system.hpp, system.cpp), Emitter (emitter.hpp,          *)
(* emitter.cpp) and Particle (particle.hpp, particle.cpp).                 *)
(*                                                                         *)
(* Numbers.  The program computes in float.  The model computes in exact   *)
(* fixed point: time in ticks of 1/Scale second, the emission carry in     *)
(* 1/Scale particle, velocity in 1/Scale px/s, position in 1/Scale^2 px    *)
(* and acceleration in whole px/s^2.  With these units vx += ax*dt and     *)
(* x += vx*dt are exact; only the force magnitudes (a division, a square   *)
(* root) are truncated to whole px/s^2.  Particle indices, worker ids and  *)
(* handles are 0-based as in the program.                                  *)
(***************************************************************************)
EXTENDS Integers, Sequences, FiniteSets, TLC

\* ------------------------------------------------------------------ bounds
MaxThreads == 2          \* thread_count is drawn from 1..MaxThreads
MaxParticles == 3        \* max_particles is 1 or MaxParticles
MaxFrames == 2           \* number of ParticleSystem::update calls
MaxCalls == 2            \* number of other calls of the caller between frames
ScreenWidth == 60        \* screen_width given to the constructor
ScreenHeight == 30       \* screen_height given to the constructor
MaxEmitSteps == 20       \* EmitSpec: number of Emitter::update calls
EmitPoolSmall == 3       \* EmitSpec: a pool that saturates
EmitPoolLarge == 12      \* EmitSpec: a pool that keeps a free slot
MaxPartPool == 7         \* PartSpec: pool sizes 0..MaxPartPool
MaxPartThreads == 4      \* PartSpec: thread counts 1..MaxPartThreads
MaxApiCalls == 4         \* ApiSpec: number of calls of the caller
MaxCtor == 1             \* CtorSpec: max_particles and thread_count are drawn from 0..MaxCtor

\* --------------------------------------------------------- program numbers
Scale == 20                       \* ticks per second: one tick is 0.05 s
PosScale == Scale * Scale
CELL_SIZE == 30
MAX_PARTICLES_PER_CELL == 64
GRAVITY == 98
REPULSION_RADIUS == 15
REPULSION_STRENGTH == 500

\* ----------------------------------------------------------------- helpers
Abs(a) == IF a < 0 THEN -a ELSE a
Min(a, b) == IF a < b THEN a ELSE b
Max(a, b) == IF a > b THEN a ELSE b

\* C++ integer conversion and division truncate toward zero.
TruncDiv(a, b) ==
    LET q == Abs(a) \div Abs(b)
    IN  IF (a < 0) # (b < 0) THEN -q ELSE q

RECURSIVE SqrtSearch(_, _, _)
SqrtSearch(n, lo, hi) ==
    IF lo >= hi THEN lo
    ELSE LET mid == (lo + hi + 1) \div 2
         IN  IF mid * mid <= n THEN SqrtSearch(n, mid, hi)
             ELSE SqrtSearch(n, lo, mid - 1)

\* std::sqrt, truncated
ISqrt(n) == SqrtSearch(n, 0, Min(n, 46340))

\* -------------------------------------------------------------- Particle
\* struct Particle, value-initialised by std::vector<Particle>(max_particles)
ZeroParticle ==
    [active |-> FALSE, x |-> 0, y |-> 0, vx |-> 0, vy |-> 0, ax |-> 0, ay |-> 0,
     lifetime |-> 0, max_lifetime |-> 0]

\* Particle::applyForce
ApplyForce(p, fx, fy) == [p EXCEPT !.ax = @ + fx, !.ay = @ + fy]

\* A variant that keeps a particle active while its lifetime is exactly zero
ParticleUpdateLate(p, dt) ==
    IF ~p.active THEN p
    ELSE LET vx1 == p.vx + p.ax * dt
             vy1 == p.vy + p.ay * dt
             l1  == p.lifetime - dt
         IN  [p EXCEPT !.vx = vx1, !.vy = vy1,
                       !.x = @ + vx1 * dt, !.y = @ + vy1 * dt,
                       !.lifetime = l1, !.active = (l1 >= 0),
                       !.ax = 0, !.ay = 0]

\* Particle::update
ParticleUpdate(p, dt) ==
    IF ~p.active THEN p
    ELSE LET vx1 == p.vx + p.ax * dt
             vy1 == p.vy + p.ay * dt
             l1  == p.lifetime - dt
         IN  [p EXCEPT !.vx = vx1, !.vy = vy1,
                       !.x = @ + vx1 * dt, !.y = @ + vy1 * dt,
                       !.lifetime = l1, !.active = (l1 > 0),
                       !.ax = 0, !.ay = 0]

PoolSize(ps) == Cardinality(DOMAIN ps)
ActiveSet(ps) == {i \in DOMAIN ps : ps[i].active}

\* --------------------------------------------------------------- the grid
GRID_WIDTH == TruncDiv(ScreenWidth, CELL_SIZE) + 2
GRID_HEIGHT == TruncDiv(ScreenHeight, CELL_SIZE) + 2
Cells == 0 .. (GRID_WIDTH * GRID_HEIGHT - 1)
EmptyGrid == [c \in Cells |-> << >>]

\* ParticleSystem::getCellIndex
GetCellIndex(x, y) ==
    LET cx == Max(0, Min(x, GRID_WIDTH - 1))
        cy == Max(0, Min(y, GRID_HEIGHT - 1))
    IN  cy * GRID_WIDTH + cx

\* static_cast<int>(p.x / CELL_SIZE)
CellCoord(pos) == TruncDiv(pos, CELL_SIZE * PosScale)

CellOf(p) == GetCellIndex(CellCoord(p.x), CellCoord(p.y))

\* A variant whose limit check lets one index more into a cell
RECURSIVE GridFillOneMore(_, _, _)
GridFillOneMore(ps, g, i) ==
    IF i >= PoolSize(ps) THEN g
    ELSE IF ps[i].active /\ Len(g[CellOf(ps[i])]) <= MAX_PARTICLES_PER_CELL
         THEN GridFillOneMore(ps, [g EXCEPT ![CellOf(ps[i])] = Append(@, i)], i + 1)
         ELSE GridFillOneMore(ps, g, i + 1)

\* The loop of updateSpatialGrid from slot i on, over the cells g
RECURSIVE GridFill(_, _, _)
GridFill(ps, g, i) ==
    IF i >= PoolSize(ps) THEN g
    ELSE IF ps[i].active /\ Len(g[CellOf(ps[i])]) < MAX_PARTICLES_PER_CELL
         THEN GridFill(ps, [g EXCEPT ![CellOf(ps[i])] = Append(@, i)], i + 1)
         ELSE GridFill(ps, g, i + 1)

\* ParticleSystem::updateSpatialGrid
UpdateSpatialGrid(ps) == GridFill(ps, EmptyGrid, 0)

\* The nine cells of the 3x3 query, in the order of the two offset loops.
NeighbourCells(gx, gy) ==
    [k \in 1..9 |-> GetCellIndex(gx + ((k - 1) % 3) - 1, gy + ((k - 1) \div 3) - 1)]

RECURSIVE Concat(_, _, _)
Concat(g, cells, k) ==
    IF k > Len(cells) THEN << >> ELSE g[cells[k]] \o Concat(g, cells, k + 1)

\* Every other_idx the interaction loop of applyGlobalForces visits, in order.
VisitedSeq(ps, g, i) ==
    Concat(g, NeighbourCells(CellCoord(ps[i].x), CellCoord(ps[i].y)), 1)

SeqRange(s) == {s[k] : k \in 1..Len(s)}

\* ----------------------------------------------------------------- forces
DistSq(dx, dy) == dx * dx + dy * dy

\* A variant that takes in the rim of the radius as well
InRadiusInclusive(dx, dy, radius) ==
    /\ Abs(dx) <= radius * PosScale
    /\ Abs(dy) <= radius * PosScale
    /\ DistSq(dx, dy) <= (radius * PosScale) * (radius * PosScale)
    /\ DistSq(dx, dy) > (PosScale * PosScale) \div 100

\* dist_sq < radius*radius && dist_sq > 0.01f, for a radius in px and
\* differences in 1/PosScale px (the box test keeps the squares in range)
InRadius(dx, dy, radius) ==
    /\ Abs(dx) < radius * PosScale
    /\ Abs(dy) < radius * PosScale
    /\ DistSq(dx, dy) < (radius * PosScale) * (radius * PosScale)
    /\ DistSq(dx, dy) > (PosScale * PosScale) \div 100

\* A variant that takes the difference from the field to the particle
FieldForceReversed(p, f) ==
    LET dx == p.x - f.x * PosScale
        dy == p.y - f.y * PosScale
    IN  IF f.active /\ InRadius(dx, dy, f.radius)
        THEN << TruncDiv(f.strength * dx * PosScale, DistSq(dx, dy)),
                TruncDiv(f.strength * dy * PosScale, DistSq(dx, dy)) >>
        ELSE << 0, 0 >>

\* One force field's contribution: (dx/dist, dy/dist) * (strength/dist)
FieldForce(p, f) ==
    LET dx == f.x * PosScale - p.x
        dy == f.y * PosScale - p.y
    IN  IF f.active /\ InRadius(dx, dy, f.radius)
        THEN << TruncDiv(f.strength * dx * PosScale, DistSq(dx, dy)),
                TruncDiv(f.strength * dy * PosScale, DistSq(dx, dy)) >>
        ELSE << 0, 0 >>

RECURSIVE ApplyFields(_, _, _)
ApplyFields(p, fields, k) ==
    IF k > Len(fields) THEN p
    ELSE LET f == FieldForce(p, fields[k])
         IN  ApplyFields(ApplyForce(p, f[1], f[2]), fields, k + 1)

\* repulsion_strength * (1 - dist/repulsion_radius) / dist, times dx and dy
RepulsionForce(p, other) ==
    LET dx == p.x - other.x
        dy == p.y - other.y
        dist == ISqrt(DistSq(dx, dy))
        rr == REPULSION_RADIUS * PosScale
    IN  IF other.active /\ InRadius(dx, dy, REPULSION_RADIUS)
        THEN << TruncDiv(TruncDiv(REPULSION_STRENGTH * dx, dist) * (rr - dist), rr),
                TruncDiv(TruncDiv(REPULSION_STRENGTH * dy, dist) * (rr - dist), rr) >>
        ELSE << 0, 0 >>

\* A variant that also pushes the neighbour away (action and reaction)
RECURSIVE ApplyRepulsionBoth(_, _, _, _)
ApplyRepulsionBoth(ps, i, visited, k) ==
    IF k > Len(visited) THEN ps
    ELSE IF visited[k] = i THEN ApplyRepulsionBoth(ps, i, visited, k + 1)
    ELSE LET f == RepulsionForce(ps[i], ps[visited[k]])
         IN  ApplyRepulsionBoth([ps EXCEPT ![i] = ApplyForce(@, f[1], f[2]),
                                           ![visited[k]] = ApplyForce(@, -f[1], -f[2])],
                                i, visited, k + 1)

\* The interaction loop of applyGlobalForces over the visited indices
RECURSIVE ApplyRepulsion(_, _, _, _)
ApplyRepulsion(ps, i, visited, k) ==
    IF k > Len(visited) THEN ps
    ELSE IF visited[k] = i THEN ApplyRepulsion(ps, i, visited, k + 1)
    ELSE LET f == RepulsionForce(ps[i], ps[visited[k]])
         IN  ApplyRepulsion([ps EXCEPT ![i] = ApplyForce(@, f[1], f[2])],
                            i, visited, k + 1)

\* ParticleSystem::applyGlobalForces(particles[i])
ApplyGlobalForces(ps, fields, g, enabled, i) ==
    LET ps1 == [ps EXCEPT ![i] = ApplyFields(ApplyForce(@, 0, GRAVITY), fields, 1)]
    IN  IF enabled THEN ApplyRepulsion(ps1, i, VisitedSeq(ps, g, i), 1) ELSE ps1

\* ---------------------------------------------------------------- Emitter
\* cos and sin of the directions the model draws for a Point emitter
Dirs == { <<1, 0>>, <<0, -1>> }

\* The random draws of one emitParticle call: dir for angle_dist, radius for
\* radius_dist (Circle: 0..50, Spiral: 5..20), off for pos_dist (-100..100),
\* jit for vel_dist in fifths (-0.2..0.2), aspeed for angle_speed_dist (2..5).
DrawsOf(type) ==
    CASE type = "Point"  -> {[dir |-> d, radius |-> 0, off |-> 0, jit |-> 0, aspeed |-> 0] :
                                d \in Dirs}
      [] type = "Circle" -> {[dir |-> <<0, -1>>, radius |-> r, off |-> 0, jit |-> 0, aspeed |-> 0] :
                                r \in {0, 50}}
      [] type = "Line"   -> {[dir |-> <<1, 0>>, radius |-> 0, off |-> o, jit |-> 1, aspeed |-> 0] :
                                o \in {-100, 100}}
      [] type = "Spiral" -> {[dir |-> <<1, 0>>, radius |-> 5, off |-> 0, jit |-> 0, aspeed |-> a] :
                                a \in {2, 5}}

\* cos and sin of settings.spiral_angle (kept in 1/Scale rad), taken at the
\* nearest multiple of pi/2: the quadrant of the angle in thousandths of a radian
SpiralDir(angle) ==
    LET q == ((TruncDiv(angle * 1000, Scale) + 785) \div 1571) % 4
    IN  CASE q = 0 -> <<1, 0>> [] q = 1 -> <<0, 1>> [] q = 2 -> <<-1, 0>> [] q = 3 -> <<0, -1>>

\* struct EmitterSettings plus Emitter::time_accumulator (acc, in 1/Scale
\* particle). x, y in px; rate in particles/s; speed in px/s; lifetime in
\* ticks; spiral_angle in 1/Scale rad; spiral_radius in 1/Scale px.
MkEmitter(x, y, rate, speed, lifetime, type) ==
    [x |-> x, y |-> y, rate |-> rate, speed |-> speed, lifetime |-> lifetime,
     type |-> type, spiral_angle |-> 0, spiral_radius |-> 5 * Scale, acc |-> 0]

\* Emitter::emitParticle: the particle as reinitialised, by emitter type
EmittedParticle(e, d) ==
    LET base == [active |-> TRUE, lifetime |-> e.lifetime, max_lifetime |-> e.lifetime,
                 ax |-> 0, ay |-> 0]
        sd == SpiralDir(e.spiral_angle)
        sr == d.radius * Scale + e.spiral_radius
    IN  CASE e.type = "Point" ->
               base @@ [x |-> e.x * PosScale, y |-> e.y * PosScale,
                        vx |-> d.dir[1] * e.speed * Scale,
                        vy |-> d.dir[2] * e.speed * Scale]
          [] e.type = "Circle" ->
               base @@ [x |-> (e.x + d.dir[1] * d.radius) * PosScale,
                        y |-> (e.y + d.dir[2] * d.radius) * PosScale,
                        vx |-> d.dir[1] * e.speed * Scale,
                        vy |-> d.dir[2] * e.speed * Scale]
          [] e.type = "Line" ->
               base @@ [x |-> (e.x + d.off) * PosScale, y |-> e.y * PosScale,
                        vx |-> TruncDiv(d.jit * e.speed * Scale, 5),
                        vy |-> -(e.speed * Scale)]
          [] e.type = "Spiral" ->
               base @@ [x |-> e.x * PosScale + sd[1] * sr * Scale,
                        y |-> e.y * PosScale + sd[2] * sr * Scale,
                        vx |-> TruncDiv((sd[1] - 2 * sd[2] * d.aspeed) * e.speed * Scale, 2),
                        vy |-> TruncDiv((sd[2] + 2 * sd[1] * d.aspeed) * e.speed * Scale, 2)]

\* Emitter::emitParticle: the emitter afterwards (the spiral parameters advance
\* by 0.1 rad and 0.05 px; the radius wraps to 5 once above 100)
EmitterAfterEmit(e) ==
    IF e.type # "Spiral" THEN e
    ELSE LET r1 == e.spiral_radius + TruncDiv(Scale, 20)
         IN  [e EXCEPT !.spiral_angle = @ + TruncDiv(Scale, 10),
                       !.spiral_radius = IF r1 > 100 * Scale THEN 5 * Scale ELSE r1]

\* A variant that scans the pool from its end
FirstInactiveFromEnd(ps) ==
    IF \A i \in DOMAIN ps : ps[i].active THEN -1
    ELSE CHOOSE i \in DOMAIN ps :
            ~ps[i].active /\ \A j \in DOMAIN ps : j > i => ps[j].active

\* "for (auto& p : particles) if (!p.active)": the first inactive slot, or -1
FirstInactive(ps) ==
    IF \A i \in DOMAIN ps : ps[i].active THEN -1
    ELSE CHOOSE i \in DOMAIN ps :
            ~ps[i].active /\ \A j \in DOMAIN ps : j < i => ps[j].active

\* A variant that counts a unit although no slot was found
EmittedIncrementAlways(slot) == 1

\* What one pass of the emission loop adds to the count of emitted particles
EmittedIncrement(slot) == IF slot >= 0 THEN 1 ELSE 0

RECURSIVE EmitLoop(_, _, _, _, _)
EmitLoop(e, ps, left, emitted, d) ==
    IF left <= 0 THEN [em |-> e, ps |-> ps, emitted |-> emitted]
    ELSE LET slot == FirstInactive(ps)
         IN  IF slot >= 0
             THEN EmitLoop(EmitterAfterEmit(e), [ps EXCEPT ![slot] = EmittedParticle(e, d)],
                           left - 1, emitted + EmittedIncrement(slot), d)
             ELSE EmitLoop(e, ps, left - 1, emitted + EmittedIncrement(slot), d)

\* particles_to_emit, in 1/Scale particle: time_accumulator += dt, then
\* settings.rate * dt + time_accumulator
ParticlesToEmit(e, dt) == e.rate * dt + (e.acc + dt)

\* A variant that rounds to the nearest whole number instead of truncating
WholeParticlesRounded(e, dt) == TruncDiv(ParticlesToEmit(e, dt) + Scale \div 2, Scale)

\* whole_particles = static_cast<int>(particles_to_emit)
WholeParticles(e, dt) == TruncDiv(ParticlesToEmit(e, dt), Scale)

\* Emitter::update(dt, particles) with the draws d: the emitter and the pool
\* afterwards and the value returned
EmitterUpdate(e, dt, ps, d) ==
    LET whole == WholeParticles(e, dt)
        e1 == [e EXCEPT !.acc = ParticlesToEmit(e, dt) - whole * Scale]
    IN  EmitLoop(e1, ps, whole, 0, d)

\* ------------------------------------------------------------------ state
VARIABLES
    particles,                      \* std::vector<Particle>, indexed from 0
    emitters,                       \* std::vector<Emitter>
    force_fields,                   \* std::vector<ForceField>
    spatial_grid,                   \* cell index -> the indices stored in the cell
    particle_interaction_enabled,
    running,                        \* std::atomic<bool>
    current_dt,                     \* std::atomic<float>, in ticks
    nthreads,                       \* thread_count of the constructor
    sync_point,                     \* std::barrier<>: count left, phase, alive
    cpc,                            \* where the caller (main) thread is
    cidx,                           \* update's position in the emitter loop
    cphase,                         \* the barrier phase the caller arrived in
    frames,                         \* update calls so far
    calls,                          \* other calls so far
    wpc,                            \* where each worker thread is
    widx,                           \* workerFunction's loop index i
    wdt,                            \* workerFunction's local dt
    wrange,                         \* workerFunction's start_idx, end_idx
    wphase,                         \* the barrier phase each worker arrived in
    frameActive,                    \* history: the particles active as the caller reached the entry barrier
    plog,                           \* history: per particle, what the workers did to it in this frame
    wread,                          \* history: the indices a worker's latest loop pass read
    wwrite,                         \* history: the indices a worker's latest loop pass wrote
    wmissed,                        \* history: in-radius neighbours the latest 3x3 query left out
    emittedNow,                     \* history: the slots emission activated in this update call
    emitLog,                        \* history of the Emitter::update calls of EmitSpec
    max_particles,                  \* max_particles of the constructor
    apiLog,                         \* history: the caller's latest call, and the handles given out
    detached,                       \* main: the burst_id of every detached thread yet to call removeEmitter
    raceLog,                        \* history: where update was as a detached thread's removeEmitter ran
    mouse_field,                    \* main: the handle of the mouse-controlled force field
    force_field_enabled,            \* main: whether the mouse controls the field
    keyLog                          \* history: main's latest key, and the mouse field's strength before it

sysVars == << particles, emitters, force_fields, spatial_grid,
              particle_interaction_enabled, running, current_dt, nthreads, sync_point >>
coordVars == << cpc, cidx, cphase, frames, calls >>
workerVars == << wpc, widx, wdt, wrange, wphase >>
histVars == << frameActive, plog, wread, wwrite, wmissed, emittedNow >>
keyVars == << mouse_field, force_field_enabled, keyLog >>
mainVars == << detached, raceLog, keyVars >>
vars == << sysVars, coordVars, workerVars, histVars, emitLog, max_particles, apiLog, mainVars >>

Workers == 0 .. (nthreads - 1)
NoRange == << -1, -1 >>

\* A variant that leaves the caller out of the barrier's expected count
BarrierExpectedNoMain == nthreads

\* sync_point(thread_count + 1)
BarrierExpected == nthreads + 1

\* One arrival of std::barrier::arrive_and_wait: the last expected arrival
\* completes the phase and resets the count.
Arrive(b) ==
    IF b.count <= 1
    THEN [b EXCEPT !.count = BarrierExpected, !.phase = (@ + 1) % 2]
    ELSE [b EXCEPT !.count = @ - 1]

\* A variant that rounds the share of a thread up
PerThreadCeil(P, N) == (P + N - 1) \div N

\* size_t particles_per_thread = particles.size() / thread_count
PerThread(P, N) == P \div N
\* size_t start_idx = id * particles_per_thread
StartIdx(id, P, N) == id * PerThread(P, N)
\* size_t end_idx = (id == thread_count - 1) ? particles.size() : (id + 1) * particles_per_thread
\* (below: a variant in which the last worker does not take the remainder)
EndIdxNoRemainder(id, P, N) == (id + 1) * PerThread(P, N)
EndIdx(id, P, N) == IF id = N - 1 THEN P ELSE (id + 1) * PerThread(P, N)

\* apiLog before any call: no call, no handle given out
NoCall ==
    [op |-> "none", h |-> 0, ret |-> 0, stale |-> FALSE,
     before |-> [particles |-> << >>, emitters |-> << >>, force_fields |-> << >>],
     emHandles |-> << >>, emStale |-> {}, ffHandles |-> << >>, ffStale |-> {}]

\* keyLog before any key
NoKey == [key |-> "none", enabled |-> TRUE, strength |-> 0]

\* A system of N workers about to test running, over the pool ps, the
\* emitters es and the force fields fs.
SysInitWith(ps, N, es, fs) ==
    /\ particles = ps
    /\ emitters = es
    /\ force_fields = fs
    /\ spatial_grid = EmptyGrid
    /\ particle_interaction_enabled = TRUE
    /\ running = TRUE
    /\ current_dt = 0
    /\ nthreads = N
    /\ sync_point = [count |-> N + 1, phase |-> 0, alive |-> TRUE]
    /\ cpc = "idle" /\ cidx = 1 /\ cphase = 0 /\ frames = 0 /\ calls = 0
    /\ wpc = [w \in 0 .. (N - 1) |-> "check"]
    /\ widx = [w \in 0 .. (N - 1) |-> 0]
    /\ wdt = [w \in 0 .. (N - 1) |-> 0]
    /\ wrange = [w \in 0 .. (N - 1) |-> NoRange]
    /\ wphase = [w \in 0 .. (N - 1) |-> 0]
    /\ frameActive = {}
    /\ plog = [i \in DOMAIN ps |-> << >>]
    /\ wread = [w \in 0 .. (N - 1) |-> {}]
    /\ wwrite = [w \in 0 .. (N - 1) |-> {}]
    /\ wmissed = [w \in 0 .. (N - 1) |-> {}]
    /\ emittedNow = {}
    /\ emitLog = [steps |-> 0, elapsed |-> 0, total |-> 0, dropped |-> FALSE,
                  whole |-> 0, free |-> 0, emitted |-> 0, before |-> << >>]
    /\ max_particles = PoolSize(ps)
    /\ apiLog = NoCall
    /\ detached = {}
    /\ raceLog = "none"
    /\ mouse_field = 0
    /\ force_field_enabled = TRUE
    /\ keyLog = NoKey

\* The state the constructor leaves: P slots, N workers about to test running.
SysInit(P, N, es) ==
    SysInitWith([i \in 0 .. (P - 1) |-> ZeroParticle], N, es, << >>)

PoolSizes == {1, MaxParticles}

Init == \E P \in PoolSizes, N \in 1 .. MaxThreads : SysInit(P, N, << >>)

\* ----------------------------------------------------------------- inputs
DtValues == {1, Scale}                     \* 0.05 s (the caller's cap) and 1 s

EmitterPresets ==
    { MkEmitter(40, 20, 20, 10, 30, "Point"),
      MkEmitter(40, 20, 1, 10, 30, "Circle"),
      MkEmitter(40, 20, 20, 10, 1, "Line"),
      MkEmitter(40, 20, 1, 10, 30, "Spiral") }

FieldPresets == { [x |-> 50, y |-> 20, radius |-> 50, strength |-> -100, active |-> TRUE] }
FieldMoves == { <<30, 20>> }
Handles == 0 .. 1

\* erase(begin() + index)
Erase(s, h) == [k \in 1 .. (Len(s) - 1) |-> IF k <= h THEN s[k] ELSE s[k + 1]]

\* Active particles other than i strictly within the repulsion radius of i
NearSet(ps, i) ==
    {j \in DOMAIN ps \ {i} :
        /\ ps[j].active
        /\ Abs(ps[i].x - ps[j].x) < REPULSION_RADIUS * PosScale
        /\ Abs(ps[i].y - ps[j].y) < REPULSION_RADIUS * PosScale
        /\ DistSq(ps[i].x - ps[j].x, ps[i].y - ps[j].y)
              < (REPULSION_RADIUS * PosScale) * (REPULSION_RADIUS * PosScale)}

Changed(ps, qs) == {j \in DOMAIN ps : ps[j] # qs[j]}

\* ------------------------------------------- the caller, between frames
\* The caller calls the system from its own thread, between two update calls.
\* Each call below is the member function alone; the specifications add the
\* budget of calls and what they record of the call.
BetweenFrames == cpc = "idle"

CallerIdle == BetweenFrames /\ calls < MaxCalls

\* ParticleSystem::addEmitter
AddEmitter(s) ==
    /\ BetweenFrames
    /\ emitters' = Append(emitters, s)
    /\ calls' = calls + 1
    /\ UNCHANGED << particles, force_fields, spatial_grid, particle_interaction_enabled,
                    running, current_dt, nthreads, sync_point, cpc, cidx, cphase, frames,
                    workerVars, histVars, emitLog, max_particles, mainVars >>

\* ParticleSystem::removeEmitter
RemoveEmitter(h) ==
    /\ BetweenFrames
    /\ emitters' = IF h < Len(emitters) THEN Erase(emitters, h) ELSE emitters
    /\ calls' = calls + 1
    /\ UNCHANGED << particles, force_fields, spatial_grid, particle_interaction_enabled,
                    running, current_dt, nthreads, sync_point, cpc, cidx, cphase, frames,
                    workerVars, histVars, emitLog, max_particles, mainVars >>

\* ParticleSystem::addForceField
AddForceField(f) ==
    /\ BetweenFrames
    /\ force_fields' = Append(force_fields, f)
    /\ calls' = calls + 1
    /\ UNCHANGED << particles, emitters, spatial_grid, particle_interaction_enabled,
                    running, current_dt, nthreads, sync_point, cpc, cidx, cphase, frames,
                    workerVars, histVars, emitLog, max_particles, mainVars >>

\* ParticleSystem::removeForceField
RemoveForceField(h) ==
    /\ BetweenFrames
    /\ force_fields' = IF h < Len(force_fields) THEN Erase(force_fields, h) ELSE force_fields
    /\ calls' = calls + 1
    /\ UNCHANGED << particles, emitters, spatial_grid, particle_interaction_enabled,
                    running, current_dt, nthreads, sync_point, cpc, cidx, cphase, frames,
                    workerVars, histVars, emitLog, max_particles, mainVars >>

\* ParticleSystem::updateForceField
UpdateForceField(h, x, y) ==
    /\ BetweenFrames
    /\ force_fields' = IF h < Len(force_fields)
                       THEN [force_fields EXCEPT ![h + 1].x = x, ![h + 1].y = y]
                       ELSE force_fields
    /\ calls' = calls + 1
    /\ UNCHANGED << particles, emitters, spatial_grid, particle_interaction_enabled,
                    running, current_dt, nthreads, sync_point, cpc, cidx, cphase, frames,
                    workerVars, histVars, emitLog, max_particles, mainVars >>

\* A variant that answers for the last field when the index is out of range
ForceFieldStrengthClamped(fields, h) ==
    IF Len(fields) = 0 THEN 0 ELSE fields[Min(h, Len(fields) - 1) + 1].strength

\* What ParticleSystem::getForceFieldStrength returns
ForceFieldStrength(fields, h) ==
    IF h < Len(fields) THEN fields[h + 1].strength ELSE 0

\* ParticleSystem::getForceFieldStrength, a const member: nothing is written
GetForceFieldStrength(h) ==
    /\ BetweenFrames
    /\ calls' = calls + 1
    /\ UNCHANGED << sysVars, cpc, cidx, cphase, frames,
                    workerVars, histVars, emitLog, max_particles, mainVars >>

\* ParticleSystem::toggleParticleInteraction
ToggleParticleInteraction(enabled) ==
    /\ BetweenFrames
    /\ particle_interaction_enabled' = enabled
    /\ calls' = calls + 1
    /\ UNCHANGED << particles, emitters, force_fields, spatial_grid,
                    running, current_dt, nthreads, sync_point, cpc, cidx, cphase, frames,
                    workerVars, histVars, emitLog, max_particles, mainVars >>

\* A variant of reset that empties the pool instead
ClearAll(ps) == << >>

\* "for (auto& p : particles) p.active = false" of reset
DeactivateAll(ps) == [i \in DOMAIN ps |-> [ps[i] EXCEPT !.active = FALSE]]

\* ParticleSystem::reset
Reset ==
    /\ BetweenFrames
    /\ particles' = DeactivateAll(particles)
    /\ emitters' = << >>
    /\ force_fields' = << >>
    /\ spatial_grid' = EmptyGrid
    /\ calls' = calls + 1
    /\ UNCHANGED << particle_interaction_enabled, running, current_dt, nthreads, sync_point,
                    cpc, cidx, cphase, frames, workerVars, histVars, emitLog,
                    max_particles, mainVars >>

\* --------------------------------------------- ParticleSystem::update(dt)
\* current_dt.store(dt)
UpdateBegin(dt) ==
    /\ cpc = "idle"
    /\ frames < MaxFrames
    /\ current_dt' = dt
    /\ frames' = frames + 1
    /\ cpc' = "grid"
    /\ plog' = [i \in DOMAIN particles |-> << >>]
    /\ emittedNow' = {}
    /\ UNCHANGED << particles, emitters, force_fields, spatial_grid,
                    particle_interaction_enabled, running, nthreads, sync_point,
                    cidx, cphase, calls, workerVars, frameActive, wread, wwrite, wmissed,
                    emitLog, max_particles, apiLog, mainVars >>

\* if (particle_interaction_enabled) updateSpatialGrid();
UpdateGrid ==
    /\ cpc = "grid"
    /\ spatial_grid' = IF particle_interaction_enabled
                       THEN UpdateSpatialGrid(particles) ELSE spatial_grid
    /\ cidx' = 1
    /\ cpc' = IF Len(emitters) = 0 THEN "arrive1" ELSE "emit"
    /\ UNCHANGED << particles, emitters, force_fields, particle_interaction_enabled,
                    running, current_dt, nthreads, sync_point, cphase, frames, calls,
                    workerVars, histVars, emitLog, max_particles, apiLog, mainVars >>

\* for (auto& emitter : emitters) emitter.update(dt, particles): one emitter
EmitStep ==
    /\ cpc = "emit"
    /\ \E d \in DrawsOf(emitters[cidx].type) :
          LET r == EmitterUpdate(emitters[cidx], current_dt, particles, d)
          IN  /\ particles' = r.ps
              /\ emitters' = [emitters EXCEPT ![cidx] = r.em]
              /\ emittedNow' = emittedNow \cup
                               {i \in DOMAIN particles : ~particles[i].active /\ r.ps[i].active}
    /\ cidx' = cidx + 1
    /\ cpc' = IF cidx + 1 > Len(emitters) THEN "arrive1" ELSE "emit"
    /\ UNCHANGED << force_fields, spatial_grid, particle_interaction_enabled, running,
                    current_dt, nthreads, sync_point, cphase, frames, calls, workerVars,
                    frameActive, plog, wread, wwrite, wmissed, emitLog, max_particles, apiLog, mainVars >>

\* the first sync_point.arrive_and_wait(): the arrival
CallerArrive1 ==
    /\ cpc = "arrive1"
    /\ sync_point' = Arrive(sync_point)
    /\ cphase' = sync_point.phase
    /\ cpc' = "wait1"
    /\ frameActive' = ActiveSet(particles)
    /\ UNCHANGED << particles, emitters, force_fields, spatial_grid,
                    particle_interaction_enabled, running, current_dt, nthreads,
                    cidx, frames, calls, workerVars, plog, wread, wwrite, wmissed,
                    emittedNow, emitLog, max_particles, apiLog, mainVars >>

\* the first sync_point.arrive_and_wait() returns as the phase completes, and
\* the caller arrives at the second
CallerWait1 ==
    /\ cpc = "wait1"
    /\ sync_point.phase # cphase
    /\ sync_point' = Arrive(sync_point)
    /\ cphase' = sync_point.phase
    /\ cpc' = "wait2"
    /\ UNCHANGED << particles, emitters, force_fields, spatial_grid,
                    particle_interaction_enabled, running, current_dt, nthreads,
                    cidx, frames, calls, workerVars, histVars, emitLog, max_particles, apiLog, mainVars >>

\* the second sync_point.arrive_and_wait(): the wait; update returns
CallerWait2 ==
    /\ cpc = "wait2"
    /\ sync_point.phase # cphase
    /\ cpc' = "idle"
    /\ UNCHANGED << sysVars, cidx, cphase, frames, calls, workerVars, histVars, emitLog, max_particles, apiLog, mainVars >>

\* ------------------------------------------ ParticleSystem::~ParticleSystem
\* running.store(false)
DtorStoreRunning ==
    /\ cpc = "idle"
    /\ running' = FALSE
    /\ cpc' = "dtor"
    /\ UNCHANGED << particles, emitters, force_fields, spatial_grid,
                    particle_interaction_enabled, current_dt, nthreads, sync_point,
                    cidx, cphase, frames, calls, workerVars, histVars, emitLog, max_particles, apiLog, mainVars >>

\* Members are destroyed in reverse order of declaration: sync_point (declared
\* after worker_threads) is destroyed before the threads are joined.
DtorDestroyBarrier ==
    /\ cpc = "dtor"
    /\ sync_point' = [sync_point EXCEPT !.alive = FALSE]
    /\ cpc' = "join"
    /\ UNCHANGED << particles, emitters, force_fields, spatial_grid,
                    particle_interaction_enabled, running, current_dt, nthreads,
                    cidx, cphase, frames, calls, workerVars, histVars, emitLog, max_particles, apiLog, mainVars >>

\* ~jthread of every worker: returns once every workerFunction has returned
DtorJoin ==
    /\ cpc = "join"
    /\ \A w \in Workers : wpc[w] = "done"
    /\ cpc' = "joined"
    /\ UNCHANGED << sysVars, cidx, cphase, frames, calls, workerVars, histVars, emitLog, max_particles, apiLog, mainVars >>

\* ------------------------------------------ ParticleSystem::workerFunction
\* Steps of a thread that no other thread can observe are taken together with
\* the next step that one can: the test of running with the arrival at the entry
\* barrier, the end of the loop with the arrival at the exit barrier.

\* while (running.load()) { sync_point.arrive_and_wait(): the arrival
CheckRunning(w) ==
    IF running
    THEN /\ sync_point' = Arrive(sync_point)
         /\ wphase' = [wphase EXCEPT ![w] = sync_point.phase]
         /\ wpc' = [wpc EXCEPT ![w] = "wait1"]
         /\ UNCHANGED << particles, emitters, force_fields, spatial_grid,
                         particle_interaction_enabled, running, current_dt, nthreads,
                         coordVars, widx, wdt, wrange, histVars, emitLog, max_particles, apiLog, mainVars >>
    ELSE /\ wpc' = [wpc EXCEPT ![w] = "done"]
         /\ UNCHANGED << sysVars, coordVars, widx, wdt, wrange, wphase, histVars, emitLog, max_particles, apiLog, mainVars >>

\* The first test of running, as the thread starts
WorkerStart(w) ==
    /\ wpc[w] = "check"
    /\ CheckRunning(w)

\* What a worker does on leaving the entry barrier: dt = current_dt.load(), then
\* particles_per_thread, start_idx and end_idx, then i = start_idx
EnterRange(w) ==
    /\ wdt' = [wdt EXCEPT ![w] = current_dt]
    /\ wrange' = [wrange EXCEPT ![w] = << StartIdx(w, PoolSize(particles), nthreads),
                                          EndIdx(w, PoolSize(particles), nthreads) >>]
    /\ widx' = [widx EXCEPT ![w] = StartIdx(w, PoolSize(particles), nthreads)]
    /\ wpc' = [wpc EXCEPT ![w] = "loop"]
    /\ UNCHANGED << sysVars, coordVars, wphase, histVars, emitLog, max_particles, apiLog, mainVars >>

\* the entry sync_point.arrive_and_wait(): the phase has completed
WorkerWait1(w) ==
    /\ wpc[w] = "wait1"
    /\ sync_point.phase # wphase[w]
    /\ EnterRange(w)

\* A variant of the loop's test that takes every particle
LoopTakesAll(p) == TRUE

\* "if (p.active)" of the loop of workerFunction
LoopTakes(p) == p.active

\* for (i = start_idx; i < end_idx; ++i) { if (p.active) applyGlobalForces(p); ...
\* and, past end_idx, the arrival at the exit barrier
WorkerLoop(w) ==
    LET i == widx[w]
        visited == IF particle_interaction_enabled
                   THEN SeqRange(VisitedSeq(particles, spatial_grid, i)) ELSE {}
    IN  /\ wpc[w] = "loop"
        /\ IF i >= wrange[w][2]
           THEN /\ sync_point' = Arrive(sync_point)
                /\ wphase' = [wphase EXCEPT ![w] = sync_point.phase]
                /\ wpc' = [wpc EXCEPT ![w] = "wait2"]
                /\ wread' = [wread EXCEPT ![w] = {}]
                /\ wwrite' = [wwrite EXCEPT ![w] = {}]
                /\ wmissed' = [wmissed EXCEPT ![w] = {}]
                /\ UNCHANGED << particles, widx, plog >>
           ELSE IF ~LoopTakes(particles[i])
           THEN /\ widx' = [widx EXCEPT ![w] = i + 1]
                /\ wread' = [wread EXCEPT ![w] = {i}]
                /\ wwrite' = [wwrite EXCEPT ![w] = {}]
                /\ wmissed' = [wmissed EXCEPT ![w] = {}]
                /\ UNCHANGED << particles, wpc, plog, sync_point, wphase >>
           ELSE /\ particles' = ApplyGlobalForces(particles, force_fields, spatial_grid,
                                                  particle_interaction_enabled, i)
                /\ wpc' = [wpc EXCEPT ![w] = "update"]
                /\ plog' = [plog EXCEPT ![i] = Append(@, << "forces", 0 >>)]
                /\ wread' = [wread EXCEPT ![w] = {i} \cup visited]
                /\ wwrite' = [wwrite EXCEPT ![w] = Changed(particles, particles')]
                /\ wmissed' = [wmissed EXCEPT ![w] =
                                  IF particle_interaction_enabled
                                  THEN NearSet(particles, i) \ visited ELSE {}]
                /\ UNCHANGED << widx, sync_point, wphase >>
        /\ UNCHANGED << emitters, force_fields, spatial_grid, particle_interaction_enabled,
                        running, current_dt, nthreads, coordVars,
                        wdt, wrange, frameActive, emittedNow, emitLog, max_particles, apiLog, mainVars >>

\* ... p.update(dt); }
WorkerUpdate(w) ==
    LET i == widx[w]
    IN  /\ wpc[w] = "update"
        /\ particles' = [particles EXCEPT ![i] = ParticleUpdate(@, wdt[w])]
        /\ plog' = [plog EXCEPT ![i] = Append(@, << "update", wdt[w] >>)]
        /\ wread' = [wread EXCEPT ![w] = {i}]
        /\ wwrite' = [wwrite EXCEPT ![w] = Changed(particles, particles')]
        /\ wmissed' = [wmissed EXCEPT ![w] = {}]
        /\ widx' = [widx EXCEPT ![w] = i + 1]
        /\ wpc' = [wpc EXCEPT ![w] = "loop"]
        /\ UNCHANGED << emitters, force_fields, spatial_grid, particle_interaction_enabled,
                        running, current_dt, nthreads, sync_point, coordVars,
                        wdt, wrange, wphase, frameActive, emittedNow, emitLog, max_particles, apiLog, mainVars >>

\* the exit sync_point.arrive_and_wait(): the phase has completed; then the
\* next test of running
WorkerWait2(w) ==
    /\ wpc[w] = "wait2"
    /\ sync_point.phase # wphase[w]
    /\ CheckRunning(w)

\* A worker blocked in arrive_and_wait on the destroyed sync_point: the wait is
\* undefined behaviour, and may return although the phase never completed.
DestroyedBarrierReturn(w) ==
    /\ ~sync_point.alive
    /\ sync_point.phase = wphase[w]
    /\ \/ wpc[w] = "wait1" /\ EnterRange(w)
       \/ wpc[w] = "wait2" /\ CheckRunning(w)

\* ------------------------------------------------------ the specification
\* A call of Spec: within the budget of calls, nothing recorded
SpecCall == CallerIdle /\ UNCHANGED apiLog

CallerNext ==
    \/ \E s \in EmitterPresets : AddEmitter(s) /\ SpecCall
    \/ \E h \in Handles : RemoveEmitter(h) /\ SpecCall
    \/ \E f \in FieldPresets : AddForceField(f) /\ SpecCall
    \/ \E h \in Handles : RemoveForceField(h) /\ SpecCall
    \/ \E h \in Handles, m \in FieldMoves : UpdateForceField(h, m[1], m[2]) /\ SpecCall
    \/ \E b \in BOOLEAN : ToggleParticleInteraction(b) /\ SpecCall
    \/ Reset /\ SpecCall
    \/ \E dt \in DtValues : UpdateBegin(dt)
    \/ DtorStoreRunning

\* The steps the caller takes by itself once inside update or the destructor
CallerRun ==
    \/ UpdateGrid
    \/ EmitStep
    \/ CallerArrive1
    \/ CallerWait1
    \/ CallerWait2
    \/ DtorDestroyBarrier
    \/ DtorJoin

WorkerRun(w) ==
    \/ WorkerStart(w)
    \/ WorkerWait1(w)
    \/ WorkerLoop(w)
    \/ WorkerUpdate(w)
    \/ WorkerWait2(w)

Next ==
    \/ CallerNext
    \/ CallerRun
    \/ \E w \in Workers : WorkerRun(w)
    \/ \E w \in Workers : DestroyedBarrierReturn(w)

Spec == Init /\ [][Next]_vars

\* Threads that can run are scheduled: the caller inside update or the
\* destructor, and every worker. Nothing obliges the caller to call again, and
\* nothing obliges a wait on a destroyed barrier to return.
FairSpec ==
    /\ Spec
    /\ WF_vars(CallerRun)
    /\ \A w \in 0 .. (MaxThreads - 1) : WF_vars(w \in Workers /\ WorkerRun(w))

\* ------------------------------------------- frame after frame
\* The caller only calls update, frame after frame, on a system with an
\* emitter; the destructor does not run, so running stays true. The threads
\* that can run are scheduled: the caller inside update, and every worker.
\* The pool has one slot: with two workers, one has an empty range and the
\* other the particle.
UpdateRun ==
    \/ UpdateGrid
    \/ EmitStep
    \/ CallerArrive1
    \/ CallerWait1
    \/ CallerWait2

FrameInit ==
    \E N \in 1 .. MaxThreads, s \in EmitterPresets : SysInit(1, N, << s >>)

FrameNext ==
    \/ \E dt \in DtValues : UpdateBegin(dt)
    \/ UpdateRun
    \/ \E w \in Workers : WorkerRun(w)

FrameSpec ==
    /\ FrameInit
    /\ [][FrameNext]_vars
    /\ WF_vars(UpdateRun)
    /\ \A w \in 0 .. (MaxThreads - 1) : WF_vars(w \in Workers /\ WorkerRun(w))

\* ------------------------------------------- Emitter::update on its own
\* An emitter of the given rate over a pool, called step after step; the pool
\* is only ever written by the emitter.
EmitSpecEmitters == { MkEmitter(0, 0, r, 10, 60, "Point") : r \in {0, 1, 10} }

EmitInit ==
    \E P \in {EmitPoolSmall, EmitPoolLarge}, e \in EmitSpecEmitters : SysInit(P, 1, << e >>)

EmitCall(dt) ==
    LET e == emitters[1]
        d == CHOOSE x \in DrawsOf(e.type) : TRUE
        r == EmitterUpdate(e, dt, particles, d)
        whole == WholeParticles(e, dt)
    IN  /\ emitLog.steps < MaxEmitSteps
        /\ particles' = r.ps
        /\ emitters' = << r.em >>
        /\ emitLog' = [steps |-> emitLog.steps + 1,
                       elapsed |-> emitLog.elapsed + dt,
                       total |-> emitLog.total + r.emitted,
                       dropped |-> emitLog.dropped \/ r.emitted < whole,
                       whole |-> whole,
                       free |-> PoolSize(particles) - Cardinality(ActiveSet(particles)),
                       emitted |-> r.emitted,
                       before |-> particles]
        /\ UNCHANGED << force_fields, spatial_grid, particle_interaction_enabled, running,
                        current_dt, nthreads, sync_point, coordVars, workerVars, histVars,
                        max_particles, apiLog, mainVars >>

\* dt of the calls: none, 0.05 s and 1 s
EmitDtValues == {0} \cup DtValues

EmitNext == \E dt \in EmitDtValues : EmitCall(dt)

EmitSpec == EmitInit /\ [][EmitNext]_vars

\* --------------------------------------- the workers' ranges on their own
\* Every worker of a pool of P slots and N threads computes start_idx, end_idx.
PartInit ==
    \E P \in 0 .. MaxPartPool, N \in 1 .. MaxPartThreads : SysInit(P, N, << >>)

PartCompute(w) ==
    /\ wrange[w] = NoRange
    /\ wrange' = [wrange EXCEPT ![w] = << StartIdx(w, PoolSize(particles), nthreads),
                                          EndIdx(w, PoolSize(particles), nthreads) >>]
    /\ UNCHANGED << sysVars, coordVars, wpc, widx, wdt, wphase, histVars, emitLog, max_particles, apiLog, mainVars >>

PartNext == \E w \in Workers : PartCompute(w)

PartSpec == PartInit /\ [][PartNext]_vars

\* ------------------------------- a force field and a particle at rest
\* The caller sets up one emitter that releases particles at rest (speed 0) and
\* one force field at the origin, then calls update: the particle of slot 0 is
\* emitted where the emitter is, and the worker applies the forces to it and
\* integrates it in the same call.
RestEmitters == { MkEmitter(x, 0, 20, 0, 30, "Point") : x \in {10, -10} }

OriginFields ==
    { [x |-> 0, y |-> 0, radius |-> 50, strength |-> s, active |-> TRUE] : s \in {-100, 100} }

\* The set-up calls come before the first update
SetUpCall == SpecCall /\ frames = 0

FieldNext ==
    \/ \E s \in RestEmitters : AddEmitter(s) /\ SetUpCall
    \/ \E f \in OriginFields : AddForceField(f) /\ SetUpCall
    \/ \E dt \in DtValues : UpdateBegin(dt)
    \/ UpdateGrid
    \/ EmitStep
    \/ CallerArrive1
    \/ CallerWait1
    \/ CallerWait2
    \/ \E w \in Workers : WorkerRun(w)

FieldSpec == SysInit(1, 1, << >>) /\ [][FieldNext]_vars

\* ---------------------------------- the force-field rule on its own
\* applyGlobalForces on one active particle at rest under one force field. The
\* particle's place is drawn in 1/PosScale px around a field at the origin: on
\* the axes and off them, at the field, at and just past the 0.1 px of the
\* epsilon, just inside the radius, on its rim and outside. The field's
\* strength, radius and active flag are drawn as well (no member function
\* clears the flag; the rule tests it).
ForcePlaces ==
    { <<4000, 0>>, <<-4000, 0>>, <<0, 4000>>, <<1200, 1600>>, <<-1200, 1600>>,
      <<2800, -1000>>, <<0, 0>>, <<40, 0>>, <<41, 0>>, <<19999, 0>>, <<20000, 0>>,
      <<12000, 16000>>, <<24000, 0>> }

ForceFields ==
    { [x |-> 0, y |-> 0, radius |-> r, strength |-> s, active |-> a] :
        r \in {5, 50}, s \in {-100, 100}, a \in BOOLEAN }

RestParticle(place) ==
    [ZeroParticle EXCEPT !.active = TRUE, !.x = place[1], !.y = place[2],
                         !.lifetime = 30, !.max_lifetime = 30]

ForceInit ==
    \E place \in ForcePlaces, f \in ForceFields :
        SysInitWith([i \in {0} |-> RestParticle(place)], 1, << >>, << f >>)

\* applyGlobalForces(particles[0]), once
ForceApply ==
    /\ plog[0] = << >>
    /\ particles' = ApplyGlobalForces(particles, force_fields, spatial_grid,
                                      particle_interaction_enabled, 0)
    /\ plog' = [plog EXCEPT ![0] = Append(@, << "forces", 0 >>)]
    /\ UNCHANGED << emitters, force_fields, spatial_grid, particle_interaction_enabled,
                    running, current_dt, nthreads, sync_point, coordVars, workerVars,
                    frameActive, wread, wwrite, wmissed, emittedNow,
                    emitLog, max_particles, apiLog, mainVars >>

ForceNext == ForceApply

ForceSpec == ForceInit /\ [][ForceNext]_vars

\* ------------------------------------ the caller's calls on their own
\* The caller makes call after call on a system that is between frames. The
\* history apiLog keeps the latest call (its name, its index argument, what it
\* returned, the lists before it) and, for each list, the handle add returned
\* for every element now in the list and the handles whose element has been
\* removed.
ApiEmitters == { MkEmitter(40, 20, r, 10, 30, "Point") : r \in {1, 20} }

ApiFields ==
    { [x |-> 50, y |-> 20, radius |-> 50, strength |-> s, active |-> TRUE] : s \in {-100, 100} }

\* The handles given out for the elements of a list after the call op(h);
\* add returns size() - 1 of the list grown by one
HandlesAfter(handles, list, op, h, add, remove) ==
    CASE op = add -> Append(handles, Len(list))
      [] op = remove /\ h < Len(list) -> Erase(handles, h)
      [] op = "reset" -> << >>
      [] OTHER -> handles

\* The handles whose element has been removed, after the call op(h)
StaleAfter(stale, handles, list, op, h, remove) ==
    CASE op = remove /\ h < Len(list) -> stale \cup {handles[h + 1]}
      [] op = "reset" -> stale \cup SeqRange(handles)
      [] OTHER -> stale

\* h was given out, its element has been removed, and it names no element now
IsStale(stale, handles, h) == h \in stale /\ h \notin SeqRange(handles)

ApiLogNext(op, h) ==
    [op |-> op, h |-> h,
     ret |-> IF op = "getForceFieldStrength" THEN ForceFieldStrength(force_fields, h) ELSE 0,
     stale |-> CASE op = "removeEmitter" -> IsStale(apiLog.emStale, apiLog.emHandles, h)
                 [] op = "removeForceField" -> IsStale(apiLog.ffStale, apiLog.ffHandles, h)
                 [] OTHER -> FALSE,
     before |-> [particles |-> particles, emitters |-> emitters, force_fields |-> force_fields],
     emHandles |-> HandlesAfter(apiLog.emHandles, emitters, op, h, "addEmitter", "removeEmitter"),
     emStale |-> StaleAfter(apiLog.emStale, apiLog.emHandles, emitters, op, h, "removeEmitter"),
     ffHandles |-> HandlesAfter(apiLog.ffHandles, force_fields, op, h,
                                "addForceField", "removeForceField"),
     ffStale |-> StaleAfter(apiLog.ffStale, apiLog.ffHandles, force_fields, op, h,
                            "removeForceField")]

\* A call of ApiSpec: within the budget of calls, recorded in apiLog
ApiCall(op, h) == calls < MaxApiCalls /\ apiLog' = ApiLogNext(op, h)

ApiNext ==
    \/ \E s \in ApiEmitters : AddEmitter(s) /\ ApiCall("addEmitter", 0)
    \/ \E h \in Handles : RemoveEmitter(h) /\ ApiCall("removeEmitter", h)
    \/ \E f \in ApiFields : AddForceField(f) /\ ApiCall("addForceField", 0)
    \/ \E h \in Handles : RemoveForceField(h) /\ ApiCall("removeForceField", h)
    \/ \E h \in Handles, m \in FieldMoves :
          UpdateForceField(h, m[1], m[2]) /\ ApiCall("updateForceField", h)
    \/ \E h \in Handles : GetForceFieldStrength(h) /\ ApiCall("getForceFieldStrength", h)
    \/ \E b \in BOOLEAN : ToggleParticleInteraction(b) /\ ApiCall("toggleParticleInteraction", 0)
    \/ Reset /\ ApiCall("reset", 0)

ApiSpec == SysInit(1, 1, << >>) /\ [][ApiNext]_vars

\* ------------------------------------- the constructor's arguments
\* The constructor takes any max_particles and any thread_count (its default,
\* std::thread::hardware_concurrency(), may be 0) and tests neither: the member
\* initialisers and the body run as for any other value. The system then runs
\* as in Spec.
CtorInit == \E P \in 0 .. MaxCtor, N \in 0 .. MaxCtor : SysInit(P, N, << >>)

CtorSpec == CtorInit /\ [][Next]_vars

\* ------------------------------------------------- main's use of the system
\* main adds the emitter of the current preset, then loops: it handles the
\* pending events and calls update with dt capped at 0.05 s. On a left click
\* it adds a burst emitter and starts a detached thread that sleeps 100 ms and
\* then calls removeEmitter(burst_id) from that thread, whatever main does
\* then. Positions are scaled to the model's screen.
FountainEmitter == MkEmitter(30, 20, 500, 200, 60, "Point")
BurstEmitter == MkEmitter(40, 20, 500, 300, 30, "Circle")

MainDtValues == {Min(1, Scale)}

MainInit ==
    \E N \in 1 .. MaxThreads :
        SysInitWith([i \in 0 .. (MaxParticles - 1) |-> ZeroParticle], N,
                    << FountainEmitter >>, << >>)

\* SDL_MOUSEBUTTONDOWN: burst_id = system.addEmitter(burst), and the detached
\* thread is started
MainClick ==
    /\ CallerIdle
    /\ emitters' = Append(emitters, BurstEmitter)
    /\ detached' = detached \cup {Len(emitters)}
    /\ calls' = calls + 1
    /\ UNCHANGED << particles, force_fields, spatial_grid, particle_interaction_enabled,
                    running, current_dt, nthreads, sync_point, cpc, cidx, cphase, frames,
                    workerVars, histVars, emitLog, max_particles, apiLog, raceLog, keyVars >>

\* Where the emission loop of update stands after emitters was erased from
\* under it: the loop reads a vector another thread has shifted (a data race,
\* undefined behaviour). It carries on over the shorter vector, or the program
\* crashes.
AfterRacingErase(es) ==
    IF cpc = "emit"
    THEN {IF cidx > Len(es) THEN "arrive1" ELSE "emit", "crashed"}
    ELSE {cpc}

\* The detached thread, its sleep over: system.removeEmitter(burst_id)
DetachedRemove(h) ==
    /\ h \in detached
    /\ detached' = detached \ {h}
    /\ emitters' = IF h < Len(emitters) THEN Erase(emitters, h) ELSE emitters
    /\ raceLog' = cpc
    /\ cpc' \in AfterRacingErase(emitters')
    /\ UNCHANGED << particles, force_fields, spatial_grid, particle_interaction_enabled,
                    running, current_dt, nthreads, sync_point, cidx, cphase, frames, calls,
                    workerVars, histVars, emitLog, max_particles, apiLog, keyVars >>

MainNext ==
    \/ MainClick
    \/ \E h \in detached : DetachedRemove(h)
    \/ \E dt \in MainDtValues : UpdateBegin(dt)
    \/ UpdateGrid
    \/ EmitStep
    \/ CallerArrive1
    \/ CallerWait1
    \/ CallerWait2
    \/ \E w \in Workers : WorkerRun(w)

MainSpec == MainInit /\ [][MainNext]_vars

\* ------------------------------------------ main's mouse-controlled field
\* Before its loop main adds the emitter of the current preset and the force
\* field the mouse controls (strength -500, an attractor below the code's sign
\* convention), and keeps the field's handle in mouse_field. The handlers below
\* run on main's thread between two update calls. Positions and the radius are
\* scaled to the model's screen.
MOUSE_FIELD_STRENGTH == -500
MouseFieldRadius == 15
MousePlaces == { << 30, 15 >>, << 10, 10 >> }

MouseField(x, y, strength) ==
    [x |-> x, y |-> y, radius |-> MouseFieldRadius, strength |-> strength, active |-> TRUE]

KeyInit ==
    SysInitWith([i \in {0} |-> ZeroParticle], 1, << FountainEmitter >>,
                << MouseField(30, 15, MOUSE_FIELD_STRENGTH) >>)

\* What a handler records: the key, force_field_enabled and the strength of the
\* field mouse_field names, all as the handler starts
KeyLogOf(key) ==
    [key |-> key, enabled |-> force_field_enabled,
     strength |-> ForceFieldStrength(force_fields, mouse_field)]

KeyPress(key) == BetweenFrames /\ calls < MaxApiCalls /\ keyLog' = KeyLogOf(key)

\* "system.removeForceField(mouse_field);
\*  float strength = system.getForceFieldStrength(mouse_field);": the strength
\* the SDLK_SPACE handler reads, after its removeForceField
SpaceKeyStrength(fields, h) ==
    ForceFieldStrength(IF h < Len(fields) THEN Erase(fields, h) ELSE fields, h)

\* case SDLK_SPACE, the mouse at (x, y)
KeySpace(x, y) ==
    /\ KeyPress("space")
    /\ IF force_field_enabled
       THEN LET removed == IF mouse_field < Len(force_fields)
                           THEN Erase(force_fields, mouse_field) ELSE force_fields
                strength == 0 - SpaceKeyStrength(force_fields, mouse_field)
            IN  /\ force_fields' = Append(removed, MouseField(x, y, strength))
                /\ mouse_field' = Len(removed)
       ELSE UNCHANGED << force_fields, mouse_field >>
    /\ calls' = calls + 1
    /\ UNCHANGED << particles, emitters, spatial_grid, particle_interaction_enabled,
                    running, current_dt, nthreads, sync_point, cpc, cidx, cphase, frames,
                    workerVars, histVars, emitLog, max_particles, apiLog,
                    detached, raceLog, force_field_enabled >>

\* case SDLK_f
KeyF ==
    /\ KeyPress("f")
    /\ force_field_enabled' = ~force_field_enabled
    /\ calls' = calls + 1
    /\ UNCHANGED << sysVars, cpc, cidx, cphase, frames, workerVars, histVars, emitLog,
                    max_particles, apiLog, detached, raceLog, mouse_field >>

\* case SDLK_r, the mouse at (x, y): reset, then the emitter and the field anew
KeyR(x, y) ==
    /\ KeyPress("r")
    /\ particles' = DeactivateAll(particles)
    /\ emitters' = << FountainEmitter >>
    /\ force_fields' = << MouseField(x, y, MOUSE_FIELD_STRENGTH) >>
    /\ spatial_grid' = EmptyGrid
    /\ mouse_field' = 0
    /\ force_field_enabled' = TRUE
    /\ calls' = calls + 1
    /\ UNCHANGED << particle_interaction_enabled, running, current_dt, nthreads, sync_point,
                    cpc, cidx, cphase, frames, workerVars, histVars, emitLog,
                    max_particles, apiLog, detached, raceLog >>

\* SDL_MOUSEMOTION with the field enabled, the mouse at (x, y)
MouseMotion(x, y) ==
    /\ force_field_enabled
    /\ calls < MaxApiCalls
    /\ UpdateForceField(mouse_field, x, y)
    /\ UNCHANGED apiLog

KeyNext ==
    \/ \E m \in MousePlaces : KeySpace(m[1], m[2])
    \/ KeyF
    \/ \E m \in MousePlaces : KeyR(m[1], m[2])
    \/ \E m \in MousePlaces : MouseMotion(m[1], m[2])
    \/ \E dt \in MainDtValues : UpdateBegin(dt)
    \/ UpdateGrid
    \/ EmitStep
    \/ CallerArrive1
    \/ CallerWait1
    \/ CallerWait2
    \/ \E w \in Workers : WorkerRun(w)

KeySpec == KeyInit /\ [][KeyNext]_vars

\* ------------------------------------------------ the grid, frame by frame
\* The system between two frames, after earlier frames have left particles in
\* the pool: some active, some not, on the screen and off it. The grid is
\* still empty (the first update call rebuilds it before it emits). The caller
\* switches particle interaction on and off and calls update; there is no
\* emitter and no field.
GridPlaces == { << 10, 10 >>, << 40, 20 >>, << 45, 40 >>, << -50, 10 >>, << 200, 100 >> }

PlacedParticle(place, active) ==
    [RestParticle(<< place[1] * PosScale, place[2] * PosScale >>) EXCEPT !.active = active]

SmallPools ==
    { [i \in 0 .. 1 |-> IF i = 0 THEN PlacedParticle(a, x) ELSE PlacedParticle(b, y)] :
        a \in GridPlaces, b \in GridPlaces, x \in BOOLEAN, y \in BOOLEAN }

GridInit == \E ps \in SmallPools : SysInitWith(ps, 1, << >>, << >>)

GridNext ==
    \/ \E b \in BOOLEAN : ToggleParticleInteraction(b) /\ SpecCall
    \/ \E dt \in MainDtValues : UpdateBegin(dt)
    \/ UpdateGrid
    \/ CallerArrive1
    \/ CallerWait1
    \/ CallerWait2
    \/ \E w \in Workers : WorkerRun(w)

GridSpec == GridInit /\ [][GridNext]_vars

\* ------------------------------------------------ the rebuild on its own
\* updateSpatialGrid over a pool as earlier frames can leave it: the small
\* pools above, and crowded pools with more active particles at one place
\* than a cell holds (slot 1 inactive among them).
CrowdedPools ==
    { [i \in 0 .. (n - 1) |-> PlacedParticle(<< 40, 20 >>, i # 1)] :
        n \in { MAX_PARTICLES_PER_CELL + 1, MAX_PARTICLES_PER_CELL + 3 } }

RebuildInit == \E ps \in SmallPools \cup CrowdedPools : SysInitWith(ps, 1, << >>, << >>)

\* updateSpatialGrid(), once
Rebuild ==
    /\ cpc = "idle"
    /\ spatial_grid' = UpdateSpatialGrid(particles)
    /\ cpc' = "rebuilt"
    /\ UNCHANGED << particles, emitters, force_fields, particle_interaction_enabled,
                    running, current_dt, nthreads, sync_point, cidx, cphase, frames, calls,
                    workerVars, histVars, emitLog, max_particles, apiLog, mainVars >>

RebuildNext == Rebuild

RebuildSpec == RebuildInit /\ [][RebuildNext]_vars

\* ================================================================ claims
OwnRange(w) == {i \in DOMAIN particles : wrange[w][1] <= i /\ i < wrange[w][2]}
InLoop(w) == wpc[w] \in {"loop", "update"}

\* C1: while the caller is in updateSpatialGrid or in the emitter loop of
\* update, no worker is inside its per-range loop.
C1_EmitAndGridBeforeWorkers ==
    cpc \in {"grid", "emit"} => \A w \in Workers : ~InLoop(w)

\* C1 witness: a worker is in its loop, in a frame whose emission activated
\* particles, while the caller waits at the exit barrier.
C1_Witness ==
    /\ cpc = "wait2"
    /\ emittedNow # {}
    /\ \E w \in Workers : InLoop(w)

\* C2: when update has returned, no worker is in its loop, and every particle
\* that was active at the entry barrier got its forces and then exactly one
\* integration with that call's dt; the others were not touched.
C2_UpdateReturnsComplete ==
    (cpc = "idle" /\ frames > 0) =>
        /\ \A w \in Workers : ~InLoop(w)
        /\ \A i \in DOMAIN particles :
              plog[i] = IF i \in frameActive
                        THEN << << "forces", 0 >>, << "update", current_dt >> >>
                        ELSE << >>

\* C2 witness: update has returned from a frame with two workers in which
\* particles of both ranges were active at the entry barrier.
C2_Witness ==
    /\ cpc = "idle"
    /\ frames > 0
    /\ nthreads = 2
    /\ \A w \in Workers : OwnRange(w) \cap frameActive # {}

\* C3: once the destructor has set running to false, every worker terminates
\* and the join completes. Stated so that a finite run refutes it: while the
\* destructor waits in the join, the workers have all terminated or one of them
\* can take a step of workerFunction.
C3_ShutdownNeverStuck ==
    cpc = "join" =>
        \/ \A w \in Workers : wpc[w] = "done"
        \/ ENABLED (\E w \in Workers : WorkerRun(w))

\* C3 as a liveness property, for FairSpec
C3_ShutdownCompletes == (~running) ~> (cpc = "joined")

\* C4: a worker's loop pass reads and writes only particles of its own range.
C4_NoForeignAccess ==
    \A w \in Workers : (wread[w] \cup wwrite[w]) \subseteq OwnRange(w)

\* C5: a worker's loop pass writes only particles of its own range.
C5_WritesOwnRange ==
    \A w \in Workers : wwrite[w] \subseteq OwnRange(w)

\* C5 witness: a worker has accumulated forces on its particle after reading a
\* particle of another worker's range in the 3x3 query, and wrote only its own.
C5_Witness ==
    \E w \in Workers :
        /\ wpc[w] = "update"
        /\ wwrite[w] = {widx[w]}
        /\ wread[w] \ OwnRange(w) # {}

\* C6: once every worker has its range, every index of the pool lies in
\* exactly one range, and no range reaches outside the pool.
C6_RangesPartitionPool ==
    (\A w \in Workers : wrange[w] # NoRange) =>
        /\ \A i \in DOMAIN particles :
              Cardinality({w \in Workers : wrange[w][1] <= i /\ i < wrange[w][2]}) = 1
        /\ \A w \in Workers : 0 <= wrange[w][1] /\ wrange[w][2] <= PoolSize(particles)

\* C6 witness: all ranges computed for a thread count that does not divide the
\* pool size, and for one above the pool size.
C6_Witness ==
    /\ \A w \in Workers : wrange[w] # NoRange
    /\ nthreads = 3
    /\ PoolSize(particles) = 7

\* C7: as the caller reaches the entry barrier the grid is the rebuild of the
\* particle store as it stands after this frame's emission.
C7_GridRebuiltAfterEmission ==
    (cpc = "arrive1" /\ particle_interaction_enabled) =>
        spatial_grid = UpdateSpatialGrid(particles)

\* C8: with no cell at capacity, the 3x3 query of a worker's particle visits
\* every other active particle within the repulsion radius.
C8_NeighbourSoundness ==
    (\A c \in Cells : Len(spatial_grid[c]) < MAX_PARTICLES_PER_CELL) =>
        \A w \in Workers : wmissed[w] = {}

\* C9: while no unit was dropped, the emitted total is floor(rate * elapsed).
C9_CarryExact ==
    ~emitLog.dropped =>
        emitLog.total = (emitters[1].rate * emitLog.elapsed) \div Scale

\* C10: Emitter::update returns min(whole, inactive slots at the start), and
\* activates that many slots without touching a particle that was active.
C10_EmitsMinOfWholeAndFree ==
    emitLog.steps > 0 =>
        /\ emitLog.emitted = Min(emitLog.whole, emitLog.free)
        /\ Cardinality(ActiveSet(particles))
              = Cardinality(ActiveSet(emitLog.before)) + emitLog.emitted
        /\ \A i \in ActiveSet(emitLog.before) : particles[i] = emitLog.before[i]

\* C10 witness: a call whose units due exceed the free slots it found.
C10_Witness ==
    /\ emitLog.steps > 0
    /\ emitLog.free > 0
    /\ emitLog.whole > emitLog.free
    /\ emitLog.emitted = emitLog.free

\* C11: after every Emitter::update the carry accumulator of every emitter lies
\* in [0, 1), that is in 0 .. Scale - 1 of its unit of 1/Scale particle.
C11_CarryInUnitInterval ==
    \A k \in 1 .. Len(emitters) : 0 <= emitters[k].acc /\ emitters[k].acc < Scale

\* C11 witness: a call that emitted whole particles and left a carry above zero.
C11_Witness ==
    /\ emitLog.steps > 0
    /\ emitLog.whole > 0
    /\ emitters[1].acc > 0

\* C12: in every step other than a call of the caller between frames, an active
\* particle either keeps its lifetime and stays active, or it is the particle
\* a worker is integrating: then its lifetime decreases by exactly the dt of
\* the frame, and it stays active exactly if the new lifetime is above zero.
C12_LifetimeStep ==
    [][calls' = calls =>
          \A i \in DOMAIN particles :
              particles[i].active =>
                  \/ /\ particles'[i].lifetime = particles[i].lifetime
                     /\ particles'[i].active
                  \/ /\ \E w \in Workers : wpc[w] = "update" /\ widx[w] = i
                     /\ particles'[i].lifetime = particles[i].lifetime - current_dt
                     /\ particles'[i].active = (particles'[i].lifetime > 0)]_vars

\* C12 witness: update has returned from a frame that integrated two
\* particles: the lifetime of one reached exactly zero and it is inactive, the
\* other has lifetime left and is active.
C12_Witness ==
    /\ cpc = "idle"
    /\ \E i \in frameActive : particles[i].lifetime = 0 /\ ~particles[i].active
    /\ \E i \in frameActive : particles[i].lifetime > 0 /\ particles[i].active

\* C13: whatever the caller and the workers have done, the pool has the
\* max_particles slots the constructor gave it, indexed 0 .. max_particles - 1,
\* and the active particles number at most max_particles.
C13_SlotsConserved ==
    /\ DOMAIN particles = 0 .. (max_particles - 1)
    /\ PoolSize(particles) = max_particles
    /\ Cardinality(ActiveSet(particles)) <= max_particles

\* C13 witness: after calls and a frame, every slot of the larger pool is active
\* although the emitters were due more particles than the pool has slots.
C13_Witness ==
    /\ calls > 0
    /\ frames > 0
    /\ max_particles = MaxParticles
    /\ Cardinality(ActiveSet(particles)) = max_particles
    /\ \E k \in 1 .. Len(emitters) : emitters[k].rate * current_dt > max_particles * Scale

\* The scenario of C14: update has returned from the first frame, entered with
\* the repelling field at the origin and the emitter of particles at rest at
\* (10, 0); the particle of slot 0 was emitted there and integrated.
C14_Scenario ==
    /\ cpc = "idle"
    /\ frames = 1
    /\ force_fields = << [x |-> 0, y |-> 0, radius |-> 50, strength |-> -100, active |-> TRUE] >>
    /\ emitters # << >>
    /\ \A k \in 1 .. Len(emitters) : emitters[k].x = 10
    /\ 0 \in frameActive

\* C14 as stated: in the scenario the x-component of the velocity is negative,
\* of magnitude |strength|/10 * dt.
C14_VelocityNegative ==
    C14_Scenario =>
        /\ particles[0].vx < 0
        /\ -particles[0].vx = (100 \div 10) * current_dt

\* C14 amended: in the scenario the x-component of the velocity is positive
\* (away from the field), of magnitude |strength|/10 * dt.
C14_VelocityAwayFromField ==
    C14_Scenario =>
        /\ particles[0].vx > 0
        /\ particles[0].vx = (100 \div 10) * current_dt

\* C14 witness: the scenario, after an update of 0.05 s.
C14_Witness ==
    /\ C14_Scenario
    /\ current_dt = 1
    /\ particles[0].active

\* The contribution the force pass left in the acceleration of particle 0,
\* gravity taken off
FieldPart == << particles[0].ax, particles[0].ay - GRAVITY >>

\* C15: the field contributes only if it is active and 0.01 < d^2 < radius^2.
\* Then the contribution has magnitude |strength|/d (each component truncated
\* to a whole number), lies along the line from the particle to the field, and
\* points to the field for a positive strength, away from it for a negative
\* one. Otherwise it is zero.
C15_FieldRule ==
    plog[0] # << >> =>
        LET f == force_fields[1]
            dx == f.x * PosScale - particles[0].x
            dy == f.y * PosScale - particles[0].y
            d2 == DistSq(dx, dy)
            fx == FieldPart[1]
            fy == FieldPart[2]
            q == ((f.strength * PosScale) * (f.strength * PosScale)) \div d2
        IN  IF f.active /\ d2 > (PosScale * PosScale) \div 100
                        /\ d2 < (f.radius * PosScale) * (f.radius * PosScale)
            THEN /\ fx * fx + fy * fy <= q
                 /\ q < (Abs(fx) + 1) * (Abs(fx) + 1) + (Abs(fy) + 1) * (Abs(fy) + 1)
                 /\ Abs(fx * dy - fy * dx) <= Abs(dx) + Abs(dy)
                 /\ fx * f.strength * dx >= 0
                 /\ fy * f.strength * dy >= 0
            ELSE fx = 0 /\ fy = 0

\* C15 witness: an attracting field has pulled a particle off the axes with a
\* force of both components, and the particle lies inside the radius.
C15_Witness ==
    /\ plog[0] # << >>
    /\ force_fields[1].strength > 0
    /\ particles[0].x > 0 /\ particles[0].y > 0
    /\ FieldPart[1] < 0 /\ FieldPart[2] < 0

\* C16: a removeEmitter or removeForceField whose handle was given out by the
\* add of that list, whose element has been removed and which names no element
\* now, leaves both lists as they were.
C16_StaleRemoveIsNoOp ==
    (apiLog.op \in {"removeEmitter", "removeForceField"} /\ apiLog.stale) =>
        /\ emitters = apiLog.before.emitters
        /\ force_fields = apiLog.before.force_fields

\* C17: removeEmitter, removeForceField, updateForceField and
\* getForceFieldStrength with an index at or above the size of their list leave
\* particles, emitters and force fields as they were, and
\* getForceFieldStrength returns 0.
C17_OutOfRangeIgnored ==
    LET size == IF apiLog.op = "removeEmitter" THEN Len(apiLog.before.emitters)
                ELSE Len(apiLog.before.force_fields)
    IN  (/\ apiLog.op \in {"removeEmitter", "removeForceField", "updateForceField",
                           "getForceFieldStrength"}
         /\ apiLog.h >= size) =>
            /\ particles = apiLog.before.particles
            /\ emitters = apiLog.before.emitters
            /\ force_fields = apiLog.before.force_fields
            /\ apiLog.op = "getForceFieldStrength" => apiLog.ret = 0

\* C17 witness: getForceFieldStrength has been called with the index just past
\* a list of one field, on a system that also has an emitter.
C17_Witness ==
    /\ apiLog.op = "getForceFieldStrength"
    /\ Len(force_fields) = 1
    /\ apiLog.h = Len(force_fields)
    /\ emitters # << >>

\* C18: after reset no particle is active, the emitter list, the force-field
\* list and every grid cell are empty, and the rest of the state, the
\* particle-interaction setting included, is as the constructor leaves it, for
\* the same pool capacity and thread count.
C18_ResetRestoresConstructed ==
    apiLog.op = "reset" =>
        /\ ActiveSet(particles) = {}
        /\ PoolSize(particles) = max_particles
        /\ emitters = << >>
        /\ force_fields = << >>
        /\ spatial_grid = EmptyGrid
        /\ particle_interaction_enabled = TRUE
        /\ running = TRUE
        /\ current_dt = 0

\* C19: no system exists with zero workers or with zero slots.
C19_NoDegenerateSystem ==
    /\ nthreads > 0
    /\ PoolSize(particles) > 0

\* C20: every mutation of the emitter list or the force-field list runs while
\* no update call is in progress: none has run while update was rebuilding the
\* grid, iterating the emitters or inside the worker phase.
C20_ListMutationsBetweenFrames ==
    raceLog \in {"none", "idle"}

\* C21: after the Space handler has run with the field enabled, mouse_field
\* names a field of the list and that field's strength is the negation of the
\* strength the mouse field had as the key was pressed.
C21_SpaceNegatesStrength ==
    (keyLog.key = "space" /\ keyLog.enabled) =>
        /\ mouse_field < Len(force_fields)
        /\ force_fields[mouse_field + 1].strength = 0 - keyLog.strength

\* The caller, or a worker, has arrived at the barrier and its phase has not
\* completed yet
CallerWaits == cpc \in {"wait1", "wait2"} /\ sync_point.phase = cphase
WorkerWaits(w) == wpc[w] \in {"wait1", "wait2"} /\ sync_point.phase = wphase[w]

\* C22: with running true and the threads scheduled fairly, every update call
\* that has started returns, frame after frame; and the threads that wait at
\* the barrier at the same time all wait in the same arrive_and_wait of the
\* frame (all at the entry barrier, or all at the exit barrier).
C22_FrameLiveness ==
    /\ (cpc # "idle") ~> (cpc = "idle")
    /\ [](\A w \in Workers :
            /\ (CallerWaits /\ WorkerWaits(w)) => wpc[w] = cpc
            /\ \A v \in Workers : (WorkerWaits(v) /\ WorkerWaits(w)) => wpc[v] = wpc[w])

\* C22 witness: the last of several consecutive update calls has returned on a
\* system of two workers, with particles emitted in it.
C22_Witness ==
    /\ cpc = "idle"
    /\ frames = MaxFrames
    /\ nthreads = 2
    /\ running
    /\ emittedNow # {}

\* No element occurs twice in the sequence
NoRepeat(s) == \A j, k \in 1 .. Len(s) : s[j] = s[k] => j = k

\* C23: when a worker is about to run the 3x3 query for an active particle
\* (interaction enabled), the nine cells of the query are nine different
\* cells, and no particle index is visited twice.
C23_QueryIsUnion ==
    \A w \in Workers :
        (/\ wpc[w] = "loop"
         /\ widx[w] < wrange[w][2]
         /\ particles[widx[w]].active
         /\ particle_interaction_enabled) =>
            /\ NoRepeat(NeighbourCells(CellCoord(particles[widx[w]].x),
                                       CellCoord(particles[widx[w]].y)))
            /\ NoRepeat(VisitedSeq(particles, spatial_grid, widx[w]))

\* The particle store as it stood when this update call ran its grid step:
\* emission, which follows it, only writes slots that were inactive then
\* (valid from the grid step up to the entry barrier).
StoreAtGridStep ==
    [i \in DOMAIN particles |->
        IF i \in emittedNow THEN [particles[i] EXCEPT !.active = FALSE] ELSE particles[i]]

\* C24: whatever the particle-interaction setting, once an update call is past
\* its grid step the grid is the from-scratch rebuild of the particle store as
\* it stood at that step: it holds the indices that rebuild inserts and no
\* others.
C24_GridRebuiltEveryUpdate ==
    cpc \in {"emit", "arrive1"} => spatial_grid = UpdateSpatialGrid(StoreAtGridStep)

\* The cells that hold the index i
CellsHolding(i) == {c \in Cells : i \in SeqRange(spatial_grid[c])}

\* C25: after updateSpatialGrid every cell holds at most
\* MAX_PARTICLES_PER_CELL indices, each once; every stored index is a slot of
\* the pool whose particle is active and is stored in the cell of its clamped
\* coordinates and in no other; and an active particle is left out only if its
\* cell is full of lower indices.
C25_GridWellFormed ==
    cpc = "rebuilt" =>
        /\ \A c \in Cells :
              /\ Len(spatial_grid[c]) <= MAX_PARTICLES_PER_CELL
              /\ NoRepeat(spatial_grid[c])
              /\ \A k \in 1 .. Len(spatial_grid[c]) :
                    /\ spatial_grid[c][k] \in DOMAIN particles
                    /\ particles[spatial_grid[c][k]].active
                    /\ CellsHolding(spatial_grid[c][k]) = {c}
                    /\ c = GetCellIndex(CellCoord(particles[spatial_grid[c][k]].x),
                                        CellCoord(particles[spatial_grid[c][k]].y))
        /\ \A i \in ActiveSet(particles) :
              CellsHolding(i) = {} =>
                  /\ Len(spatial_grid[CellOf(particles[i])]) = MAX_PARTICLES_PER_CELL
                  /\ \A j \in SeqRange(spatial_grid[CellOf(particles[i])]) : j < i

\* C25 witness: the rebuild has filled a cell to its bound and left active
\* particles of that cell out, with an inactive slot among the lower indices.
C25_Witness ==
    /\ cpc = "rebuilt"
    /\ \E c \in Cells : Len(spatial_grid[c]) = MAX_PARTICLES_PER_CELL
    /\ Cardinality({i \in ActiveSet(particles) : CellsHolding(i) = {}}) > 1
    /\ \E i \in DOMAIN particles : ~particles[i].active

\* C25 witness of the clamping: the rebuild has stored a particle that lies
\* off the screen in a border cell.
C25_WitnessClamped ==
    /\ cpc = "rebuilt"
    /\ \E i \in ActiveSet(particles) :
          /\ particles[i].x < 0
          /\ CellsHolding(i) = {CellOf(particles[i])}

\* C26: a step changes an inactive particle only if it is the emission of
\* update activating that slot; in particular no step of a worker, and no
\* reset, changes an inactive particle or makes a particle active.
C26_InactiveUntouched ==
    [][\A i \in DOMAIN particles \cap DOMAIN particles' :
          ~particles[i].active =>
              \/ particles'[i] = particles[i]
              \/ /\ cpc = "emit"
                 /\ particles'[i].active
                 /\ i \in emittedNow' \ emittedNow]_vars

\* C26 witness: update has returned from a frame in which a worker passed over
\* a particle that was inactive at the entry barrier and deactivated another.
C26_Witness ==
    /\ cpc = "idle"
    /\ frames > 0
    /\ \E i \in DOMAIN particles \ frameActive : ~particles[i].active
    /\ \E j \in frameActive : ~particles[j].active

\* C27: the step of update's emission loop that serves emitter cidx activates
\* the lowest-index slots that were inactive, each initialised from that
\* emitter, changes no other particle and no other emitter, and passes on to
\* emitter cidx + 1; no other step taken during the emission loop changes the
\* pool.
C27_LowestFreeSlotInListOrder ==
    [][cpc = "emit" =>
          LET free == {i \in DOMAIN particles : ~particles[i].active}
              newly == {i \in free : particles'[i].active}
          IN  IF cidx' = cidx
              THEN particles' = particles /\ emitters' = emitters
              ELSE /\ cidx' = cidx + 1
                   /\ \A i \in newly : \A j \in free : j < i => j \in newly
                   /\ \A i \in newly :
                         particles'[i].max_lifetime = emitters[cidx].lifetime
                   /\ \A i \in DOMAIN particles \ newly : particles'[i] = particles[i]
                   /\ \A k \in 1 .. Len(emitters) :
                         k # cidx => emitters'[k] = emitters[k]]_vars

\* C27 witness: in a second frame two emitters of different lifetimes have
\* each activated a slot, the earlier emitter a lower slot than the later, one
\* of them a slot that a particle of the first frame had left.
C27_Witness ==
    /\ cpc = "arrive1"
    /\ frames = 2
    /\ Len(emitters) = 2
    /\ emitters[1].lifetime # emitters[2].lifetime
    /\ \E i, j \in emittedNow :
          /\ i < j
          /\ particles[i].max_lifetime = emitters[1].lifetime
          /\ particles[j].max_lifetime = emitters[2].lifetime
          /\ \E k \in DOMAIN particles \ emittedNow : particles[k].active /\ i < k

\* C28: every element now in the emitter list or the force-field list is still
\* the element of the handle its add returned: the handle given out for the
\* element at index k is k.
C28_HandlesStable ==
    /\ \A k \in 1 .. Len(apiLog.emHandles) : apiLog.emHandles[k] = k - 1
    /\ \A k \in 1 .. Len(apiLog.ffHandles) : apiLog.ffHandles[k] = k - 1

====
